---- MODULE Spec2Model ----
(***************************************************************************)
(* Model of postgresql-data-export.py: the export pipeline run by main()   *)
(* (fetch_data -> save_to_excel), and the module-level functions           *)
(* upload_to_sharepoint and read_sql_file, which main() never calls but    *)
(* which any importer can.  Library calls (Config, create_engine,          *)
(* pd.read_sql_query, DataFrame.to_excel, open, requests.put) are steps    *)
(* whose outcome (return or raise) is chosen nondeterministically.         *)
(***************************************************************************)
EXTENDS Integers, Sequences, FiniteSets, TLC

VARIABLES
    pc,         \* position in the running function
    entry,      \* the function that was invoked: main, fetch_data, ...
    environ,    \* the configuration variables that are set
    db_url,     \* fetch_data's db_url argument
    config,     \* the values fetch_data read: user, password, host, ...
    engine,     \* "none" or "live": the engine created at line 76
    engine_url, \* the URL the engine was created with
    pool,       \* the engine's pool: connections checked out and idle
    connects,   \* number of connection attempts made
    query,      \* the SQL text read from the file, or "unset"
    data,       \* the value fetch_data returned
    exc,        \* the exception in flight, or "none"
    escaped,    \* an exception left the invoked function
    xlsx,       \* the spreadsheet file on disk
    log,        \* records written to the log file
    stderr,     \* logging's own error reports
    stdout,     \* what print() wrote
    stages,     \* the pipeline steps begun so far, each with its outcome
    puts,       \* number of HTTP PUT requests issued
    took        \* the branch of main's if statement: "none", "if", "else"

vars == <<pc, entry, environ, db_url, config, engine, engine_url, pool,
          connects, query, data, exc, escaped, xlsx, log, stderr, stdout,
          stages, puts, took>>

\* ------------------------------------------------------------------ bounds
MaxRows == 2

\* ------------------------------------------------------------------ values
ConfigKeys == <<"DB_USER", "DB_PASSWORD", "DB_HOST", "DB_PORT", "DB_NAME">>

KeySet == {ConfigKeys[i] : i \in 1..Len(ConfigKeys)}

\* The value each configuration variable holds when it is set.
ConfigValue(k) ==
    CASE k = "DB_USER" -> "alice"
      [] k = "DB_PASSWORD" -> "secret"
      [] k = "DB_HOST" -> "dbhost"
      [] k = "DB_PORT" -> "5432"
      [] k = "DB_NAME" -> "sales"

\* f"postgresql://{user}:{password}@{host}:{port}/{database}", as its pieces.
EngineUrl(user, password, host, port, database) ==
    <<"postgresql://", user, ":", password, "@", host, ":", port, "/", database>>

\* The literal main() passes as db_url.
MainDbUrl == <<"URL of DB">>

\* The db_url arguments of a direct call of fetch_data.
DbUrls == {EngineUrl("alice", "secret", "dbhost", "5432", "sales"),
           EngineUrl("bob", "hunter2", "otherhost", "5433", "hr")}

ColumnOrders == {<<"a">>, <<"a", "b">>, <<"b", "a">>}

Cells == {"1", "x"}

BoundedSeq(S, n) == UNION {[1..k -> S] : k \in 0..n}

None == [kind |-> "None", columns |-> <<>>, rows |-> <<>>]

Unset == [kind |-> "unset", columns |-> <<>>, rows |-> <<>>]

DataFrame(cols, rws) == [kind |-> "DataFrame", columns |-> cols, rows |-> rws]

\* The results a query can produce: N rows (0..MaxRows) of C columns.
Frames ==
    UNION {{DataFrame(c, r) : r \in BoundedSeq([1..Len(c) -> Cells], MaxRows)}
           : c \in ColumnOrders}

AbsentFile == [state |-> "absent", sheet |-> <<>>]

ExistingFile == [state |-> "complete", sheet |-> <<<<"a">>, <<"1">>>>]

\* ------------------------------------------------------------- exceptions
OSErrors == {"FileNotFoundError", "PermissionError", "OSError"}

ExceptionClasses ==
    OSErrors \cup {"TypeError", "KeyError", "AttributeError", "ArgumentError",
                   "UnicodeDecodeError", "OperationalError", "ProgrammingError",
                   "ConnectionError", "HTTPError", "ValueError"}

ExceptOSError(e) == e \in OSErrors

\* `except Exception as e`: every exception class the steps raise derives
\* from Exception.
ExceptException(e) == e \in ExceptionClasses

\* ---------------------------------------------------------------- logging
CountPlaceholders(fmt) == Cardinality({i \in 1..Len(fmt) : fmt[i] = "%s"})

\* msg % args of a log record: it raises when the arguments do not match
\* the placeholders; without arguments the message is used as it is.
Formats(fmt, args) == Len(args) = 0 \/ CountPlaceholders(fmt) = Len(args)

RECURSIVE Render(_, _)
Render(fmt, args) ==
    IF fmt = <<>> THEN <<>>
    ELSE IF Head(fmt) = "%s" /\ args # <<>>
         THEN <<Head(args)>> \o Render(Tail(fmt), Tail(args))
         ELSE <<Head(fmt)>> \o Render(Tail(fmt), args)

\* logging.error(fmt, *args) on the root logger configured at line 39: the
\* record reaches the log file when it formats; a record that does not format
\* is reported on stderr by the handler and is not written.
LoggingError(fmt, args) ==
    IF Formats(fmt, args)
    THEN /\ log' = Append(log, Render(fmt, args))
         /\ stderr' = stderr
    ELSE /\ log' = log
         /\ stderr' = Append(stderr, <<"--- Logging error ---">> \o fmt)

FetchErrorFmt == <<"Error fetching data: ", "%s">>

SaveErrorFmt == <<"Error saving data to Excel: ">>

UploadErrorFmt == <<"Error uploading to SharePoint: ">>

NoDataFmt == <<"No data fetched from the database">>

\* -------------------------------------------------------------------- init
Entries == {"main", "fetch_data", "upload_to_sharepoint", "read_sql_file"}

Init ==
    /\ pc = "start"
    /\ entry \in Entries
    /\ environ \in SUBSET KeySet
    /\ entry \in {"upload_to_sharepoint", "read_sql_file"} => environ = KeySet
    /\ db_url \in IF entry = "fetch_data" THEN DbUrls ELSE {MainDbUrl}
    /\ config = <<>>
    /\ engine = "none"
    /\ engine_url = <<>>
    /\ pool = [checkedout |-> 0, idle |-> 0]
    /\ connects = 0
    /\ query = "unset"
    /\ data = Unset
    /\ exc = "none"
    /\ escaped = FALSE
    /\ xlsx \in IF entry = "upload_to_sharepoint"
                THEN {AbsentFile, ExistingFile} ELSE {AbsentFile}
    /\ log = <<>>
    /\ stderr = <<>>
    /\ stdout = <<>>
    /\ stages = <<>>
    /\ puts = 0
    /\ took = "none"

Began(name, ok) == stages' = Append(stages, [name |-> name, ok |-> ok])

\* Where control goes when fetch_data returns.
AfterFetch == IF entry = "main" THEN "main_if" ELSE "done"

\* -------------------------------------------------------------------- main
\* Lines 133-140: build the file name and call fetch_data; a direct call of
\* fetch_data enters at the same place.
CallFetchData ==
    /\ pc = "start"
    /\ entry \in {"main", "fetch_data"}
    /\ pc' = "fetch_config"
    /\ UNCHANGED <<entry, environ, db_url, config, engine, engine_url, pool,
                   connects, query, data, exc, escaped, xlsx, log, stderr,
                   stdout, stages, puts, took>>

\* -------------------------------------------------------------- fetch_data
\* A step of fetch_data's try block raised e: control goes to line 86.
FetchRaise(step, e) ==
    /\ Began(step, FALSE)
    /\ exc' = e
    /\ pc' = "fetch_except"

\* What config.get(k) gives for a variable that is set or not: the value, or
\* None, which the f-string of line 75 renders as "None".
ConfigGet(k) == IF k \in environ THEN ConfigValue(k) ELSE "None"

\* Lines 67-72: Config() and the five config.get calls.  The constructor may
\* raise (sqlalchemy.testing.config.Config takes required arguments), and a
\* get of a variable that is not set may return None or raise.
FetchConfig ==
    /\ pc = "fetch_config"
    /\ \/ /\ FetchRaise("config", "TypeError")
          /\ UNCHANGED config
       \/ /\ environ # KeySet
          /\ FetchRaise("config", "KeyError")
          /\ UNCHANGED config
       \/ /\ config' = [i \in 1..Len(ConfigKeys) |-> ConfigGet(ConfigKeys[i])]
          /\ Began("config", TRUE)
          /\ pc' = "fetch_engine"
          /\ UNCHANGED exc
    /\ UNCHANGED <<entry, environ, db_url, engine, engine_url, pool, connects,
                   query, data, escaped, xlsx, log, stderr, stdout, puts, took>>

\* create_engine parses the URL and converts the port to an integer.
PortIsInt(p) == p \in {"5432", "5433"}

\* Line 75: the URL the engine is created with.
FetchEngineUrl ==
    EngineUrl(config[1], config[2], config[3], config[4], config[5])

\* Lines 75-76: create_engine(engine_url, pool_size=10, max_overflow=20).  The
\* engine connects lazily: no connection is opened here.
FetchCreateEngine ==
    /\ pc = "fetch_engine"
    /\ \/ /\ PortIsInt(FetchEngineUrl[8])
          /\ engine' = "live"
          /\ engine_url' = FetchEngineUrl
          /\ Began("engine", TRUE)
          /\ pc' = "fetch_open"
          /\ UNCHANGED exc
       \/ /\ FetchRaise("engine", IF PortIsInt(FetchEngineUrl[8])
                                  THEN "ArgumentError" ELSE "ValueError")
          /\ UNCHANGED <<engine, engine_url>>
    /\ UNCHANGED <<entry, environ, db_url, config, pool, connects, query, data,
                   escaped, xlsx, log, stderr, stdout, puts, took>>

\* Lines 79-80: read the SQL file.
FetchOpenSql ==
    /\ pc = "fetch_open"
    /\ \/ /\ query' = "sql"
          /\ Began("sqlfile", TRUE)
          /\ pc' = "fetch_query"
          /\ UNCHANGED exc
       \/ /\ \E e \in {"FileNotFoundError", "PermissionError", "UnicodeDecodeError"} :
                FetchRaise("sqlfile", e)
          /\ UNCHANGED query
    /\ UNCHANGED <<entry, environ, db_url, config, engine, engine_url, pool,
                   connects, data, escaped, xlsx, log, stderr, stdout, puts, took>>

\* The pool after a connection that was opened is given back: it stays open,
\* idle in the pool, until the engine is disposed.
Release(p) == [checkedout |-> 0, idle |-> p.idle + 1]

\* Lines 83-85: pd.read_sql_query(query, engine) checks a connection out of
\* the engine's pool (connecting), runs the query, and gives the connection
\* back to the pool, also when the query raises; then `return data`.
\* fetch_data has no engine.dispose().
FetchQuery ==
    /\ pc = "fetch_query"
    /\ connects' = connects + 1
    /\ \/ /\ FetchRaise("query", "OperationalError")   \* cannot connect
          /\ UNCHANGED <<pool, data>>
       \/ /\ FetchRaise("query", "ProgrammingError")   \* the query fails
          /\ pool' = Release(pool)
          /\ UNCHANGED data
       \/ /\ \E df \in Frames : data' = df
          /\ pool' = Release(pool)
          /\ Began("query", TRUE)
          /\ pc' = AfterFetch
          /\ UNCHANGED exc
    /\ UNCHANGED <<entry, environ, db_url, config, engine, engine_url, query,
                   escaped, xlsx, log, stderr, stdout, puts, took>>

FetchExceptReturnsFrame == DataFrame(<<>>, <<>>)

\* Line 88: `return None`.
FetchExceptReturn == None

\* An exception no except clause of the function matches leaves it.
Propagate ==
    /\ escaped' = TRUE
    /\ pc' = "crashed"
    /\ UNCHANGED <<exc, log, stderr, stdout, data>>

\* Lines 86-88: except Exception: log the error and return None.
FetchExcept ==
    /\ pc = "fetch_except"
    /\ \/ /\ ExceptException(exc)
          /\ LoggingError(FetchErrorFmt, <<exc>>)
          /\ data' = FetchExceptReturn
          /\ exc' = "none"
          /\ pc' = AfterFetch
          /\ UNCHANGED <<escaped, stdout>>
       \/ /\ ~ExceptException(exc)
          /\ Propagate
    /\ UNCHANGED <<entry, environ, db_url, config, engine, engine_url, pool,
                   connects, query, xlsx, stages, puts, took>>

\* ---------------------------------------------------------------- main, if
MainSavesAlways(d) == TRUE

\* Line 142: `if data is not None`.
MainBranch(d) == d # None

\* Lines 142-147: save the data, or log that there is none and return.
MainIf ==
    /\ pc = "main_if"
    /\ \/ /\ MainBranch(data)
          /\ took' = "if"
          /\ pc' = "save"
          /\ UNCHANGED <<log, stderr>>
       \/ /\ ~MainBranch(data)
          /\ LoggingError(NoDataFmt, <<>>)
          /\ took' = "else"
          /\ pc' = "done"
    /\ UNCHANGED <<entry, environ, db_url, config, engine, engine_url, pool,
                   connects, query, data, exc, escaped, xlsx, stdout, stages,
                   puts>>

\* ----------------------------------------------------------- save_to_excel
\* The labels of a DataFrame's default index: 0, 1, 2, ...
IndexLabel(i) == <<"0", "1", "2", "3", "4", "5">>[i]

\* DataFrame.to_excel(filename, index=...): one header row of the column
\* names, then one row per data row; with index=True every row starts with
\* its index label (the header with an empty cell).
ToExcel(df, index) ==
    <<(IF index THEN <<"">> ELSE <<>>) \o df.columns>>
    \o [i \in 1..Len(df.rows) |->
          (IF index THEN <<IndexLabel(i)>> ELSE <<>>) \o df.rows[i]]

SaveRaise(e) ==
    /\ Began("write", FALSE)
    /\ exc' = e
    /\ pc' = "save_except"

\* Line 101: data.to_excel(filename, index=index).  It may fail before the
\* file exists (invalid path, permission denied) or after part of it was
\* written (disk full); on success save_to_excel and then main return.
SaveToExcelWith(index) ==
    /\ pc = "save"
    /\ \/ /\ data.kind # "DataFrame"
          /\ SaveRaise("AttributeError")
          /\ UNCHANGED xlsx
       \/ /\ data.kind = "DataFrame"
          /\ \E e \in {"PermissionError", "OSError"} : SaveRaise(e)
          /\ UNCHANGED xlsx
       \/ /\ data.kind = "DataFrame"
          /\ SaveRaise("OSError")
          /\ \E k \in 0..Len(data.rows) :
                xlsx' = [state |-> "partial",
                         sheet |-> SubSeq(ToExcel(data, index), 1, k)]
       \/ /\ data.kind = "DataFrame"
          /\ xlsx' = [state |-> "complete", sheet |-> ToExcel(data, index)]
          /\ Began("write", TRUE)
          /\ pc' = "done"
          /\ UNCHANGED exc
    /\ UNCHANGED <<entry, environ, db_url, config, engine, engine_url, pool,
                   connects, query, data, escaped, log, stderr, stdout, puts,
                   took>>

SaveToExcelWithIndex == SaveToExcelWith(TRUE)

\* Lines 100-101: the try block of save_to_excel, index=False.
SaveToExcel == SaveToExcelWith(FALSE)

\* Lines 102-103: except Exception: logging.error("Error saving data to
\* Excel: ", e); save_to_excel returns None as on success, and main returns.
SaveExcept ==
    /\ pc = "save_except"
    /\ \/ /\ ExceptException(exc)
          /\ LoggingError(SaveErrorFmt, <<exc>>)
          /\ exc' = "none"
          /\ pc' = "done"
          /\ UNCHANGED <<escaped, stdout, data>>
       \/ /\ ~ExceptException(exc)
          /\ Propagate
    /\ UNCHANGED <<entry, environ, db_url, config, engine, engine_url, pool,
                   connects, query, xlsx, stages, puts, took>>

\* ---------------------------------------------------- upload_to_sharepoint
HttpStatuses == {200, 201, 304, 404, 500}

\* response.raise_for_status(): raises HTTPError for a 4xx or 5xx status.
RaiseForStatus(status) == status >= 400 /\ status < 600

UploadRaise(e) ==
    /\ Began("upload", FALSE)
    /\ exc' = e
    /\ pc' = "upload_except"

\* Lines 114-123: read the file, PUT it, raise_for_status.
UploadToSharepoint ==
    /\ pc = "start"
    /\ entry = "upload_to_sharepoint"
    /\ \/ /\ xlsx.state = "absent"
          /\ UploadRaise("FileNotFoundError")
          /\ UNCHANGED puts
       \/ /\ xlsx.state # "absent"
          /\ UploadRaise("PermissionError")
          /\ UNCHANGED puts
       \/ /\ xlsx.state # "absent"
          /\ puts' = puts + 1
          /\ UploadRaise("ConnectionError")
       \/ /\ xlsx.state # "absent"
          /\ puts' = puts + 1
          /\ \E status \in HttpStatuses :
                IF RaiseForStatus(status)
                THEN UploadRaise("HTTPError")
                ELSE /\ Began("upload", TRUE)
                     /\ pc' = "done"
                     /\ UNCHANGED exc
    /\ UNCHANGED <<entry, environ, db_url, config, engine, engine_url, pool,
                   connects, query, data, escaped, xlsx, log, stderr, stdout,
                   took>>

\* Lines 124-125: except Exception: logging.error("Error uploading to
\* SharePoint: ", e).
UploadExcept ==
    /\ pc = "upload_except"
    /\ \/ /\ ExceptException(exc)
          /\ LoggingError(UploadErrorFmt, <<exc>>)
          /\ exc' = "none"
          /\ pc' = "done"
          /\ UNCHANGED <<escaped, stdout, data>>
       \/ /\ ~ExceptException(exc)
          /\ Propagate
    /\ UNCHANGED <<entry, environ, db_url, config, engine, engine_url, pool,
                   connects, query, xlsx, stages, puts, took>>

\* ----------------------------------------------------------- read_sql_file
\* Lines 44-47: open and read the file.
ReadSqlFile ==
    /\ pc = "start"
    /\ entry = "read_sql_file"
    /\ \/ /\ query' = "sql"
          /\ Began("read_sql_file", TRUE)
          /\ pc' = "done"
          /\ UNCHANGED exc
       \/ /\ \E e \in {"FileNotFoundError", "PermissionError", "UnicodeDecodeError"} :
                exc' = e
          /\ Began("read_sql_file", FALSE)
          /\ pc' = "read_sql_except"
          /\ UNCHANGED query
    /\ UNCHANGED <<entry, environ, db_url, config, engine, engine_url, pool,
                   connects, data, escaped, xlsx, log, stderr, stdout, puts,
                   took>>

\* Lines 48-50: except Exception: print the error and return None.
ReadSqlExcept ==
    /\ pc = "read_sql_except"
    /\ \/ /\ ExceptException(exc)
          /\ stdout' = Append(stdout, <<"Error occurred: ", exc>>)
          /\ query' = "None"
          /\ exc' = "none"
          /\ pc' = "done"
          /\ UNCHANGED <<escaped, log, stderr, data>>
       \/ /\ ~ExceptException(exc)
          /\ Propagate
          /\ UNCHANGED query
    /\ UNCHANGED <<entry, environ, db_url, config, engine, engine_url, pool,
                   connects, xlsx, stages, puts, took>>

\* ----------------------------------------------------------- specification
Next ==
    \/ CallFetchData
    \/ FetchConfig
    \/ FetchCreateEngine
    \/ FetchOpenSql
    \/ FetchQuery
    \/ FetchExcept
    \/ MainIf
    \/ SaveToExcel
    \/ SaveExcept
    \/ UploadToSharepoint
    \/ UploadExcept
    \/ ReadSqlFile
    \/ ReadSqlExcept

Spec == Init /\ [][Next]_vars

\* ------------------------------------------------------------- run status
\* How a run of main() ended: main's only failure handling is the else
\* branch of line 146; a run that took the if branch returns as a completed
\* export.
RunStatus ==
    IF pc = "crashed" THEN "Crashed"
    ELSE IF pc # "done" THEN "Running"
    ELSE IF took = "else" THEN "Failed" ELSE "Done"

\* ------------------------------------------------------------- properties
FetchSteps == {"config", "engine", "sqlfile", "query"}

PipelineOrder == <<"config", "engine", "sqlfile", "query", "write">>

BeganStep(name) == \E i \in 1..Len(stages) : stages[i].name = name

FailedStep(name) ==
    \E i \in 1..Len(stages) : stages[i].name = name /\ ~stages[i].ok

SucceededStep(name) ==
    \E i \in 1..Len(stages) : stages[i].name = name /\ stages[i].ok

FetchFailed == \E n \in FetchSteps : FailedStep(n)

FetchReturned == pc \in {"main_if", "save", "save_except", "done"}

Logged(prefix) == \E i \in 1..Len(log) : log[i][1] = prefix

\* The log message that describes a failure of each step.
FailureMessage(name) ==
    CASE name \in FetchSteps -> "Error fetching data: "
      [] name = "write" -> "Error saving data to Excel: "
      [] name = "upload" -> "Error uploading to SharePoint: "
      [] name = "read_sql_file" -> "Error occurred: "

\* C1: in a run of main() the steps begin only in the pipeline's order
\* (configuration, engine, SQL file, query, write), each at most once, none
\* before its predecessor succeeded, and nothing happens once the run ended.
C1_StageOrder ==
    entry = "main" =>
        /\ Len(stages) <= Len(PipelineOrder)
        /\ \A i \in 1..Len(stages) : stages[i].name = PipelineOrder[i]
        /\ \A i \in 1..(Len(stages) - 1) : stages[i].ok
        /\ (RunStatus \in {"Done", "Failed"} => ~ENABLED Next)

C1_Witness ==
    /\ entry = "main"
    /\ RunStatus = "Done"
    /\ Len(stages) = Len(PipelineOrder)
    /\ stages[Len(stages)].ok

\* C2: when a step of the query stage fails, fetch_data returns None, the
\* error is in the log, main never calls save_to_excel and no spreadsheet
\* file exists.
C2_QueryFailureNoOutput ==
    (entry \in {"main", "fetch_data"} /\ FetchFailed /\ FetchReturned) =>
        /\ data = None
        /\ Logged("Error fetching data: ")
        /\ pc \in {"main_if", "done"}
        /\ ~BeganStep("write")
        /\ xlsx.state = "absent"
        /\ (pc = "done" /\ entry = "main" =>
                took = "else" /\ Logged("No data fetched from the database"))

C2_Witness ==
    /\ entry = "main"
    /\ FailedStep("sqlfile")
    /\ pc = "done"
    /\ took = "else"

\* C3 (as claimed): once a configuration variable is found missing, no engine
\* is created and no connection is attempted.
C3_NoConnectionAfterMissingConfig ==
    (environ # KeySet /\ BeganStep("config")) =>
        engine = "none" /\ connects = 0

\* C4 (as claimed): when fetch_data has returned, no connection it opened is
\* still open and the engine that connected is disposed.
C4_ConnectionsReleased ==
    (entry \in {"main", "fetch_data"} /\ FetchReturned) =>
        /\ pool.checkedout = 0
        /\ pool.idle = 0
        /\ (connects > 0 => engine = "disposed")

\* C5 (as claimed): a run whose spreadsheet write failed ends as Failed.
C5_WriteFailureFailsRun ==
    (entry = "main" /\ FailedStep("write") /\ pc = "done") =>
        RunStatus = "Failed"

\* C6 (as claimed): when the invoked function has returned, every step that
\* failed has its failure message in the log file.
C6_EveryFailureLogged ==
    pc = "done" =>
        \A i \in 1..Len(stages) :
            ~stages[i].ok => Logged(FailureMessage(stages[i].name))

\* C7: no exception leaves the invoked function, and the run is never stuck
\* short of its end.
C7_NoUnhandledFault ==
    /\ ~escaped
    /\ pc # "crashed"
    /\ (pc = "done" \/ ENABLED Next)

C7_Witness ==
    /\ entry = "main"
    /\ pc = "done"
    /\ FailedStep("write")
    /\ exc = "none"

\* C8: after a successful save the spreadsheet holds one header row with the
\* result's column names in order, then the result's rows in order, with no
\* index column; an empty result gives the header only, with nothing logged.
C8_SheetMatchesResult ==
    SucceededStep("write") =>
        /\ xlsx.state = "complete"
        /\ Len(xlsx.sheet) = 1 + Len(data.rows)
        /\ xlsx.sheet[1] = data.columns
        /\ \A i \in 1..Len(data.rows) : xlsx.sheet[i + 1] = data.rows[i]
        /\ RunStatus = "Done"
        /\ log = <<>> /\ stderr = <<>>

C8_Witness ==
    /\ SucceededStep("write")
    /\ Len(data.rows) = 0
    /\ Len(data.columns) = 2
    /\ Len(xlsx.sheet) = 1

\* C9 (as claimed): a failed upload is logged, leaves the local file as it
\* was, issues at most one PUT and lets the caller continue; every response
\* that is not 2xx ends as such a failure.
C9_UploadFailureLoggedAndSwallowed ==
    (entry = "upload_to_sharepoint" /\ FailedStep("upload") /\ pc = "done") =>
        /\ Logged("Error uploading to SharePoint: ")
        /\ xlsx \in {AbsentFile, ExistingFile}
        /\ puts <= 1
        /\ ~escaped

\* C10 (as claimed): the engine fetch_data creates is for the database its
\* db_url argument names.
C10_EngineUsesDbUrl ==
    engine = "live" => engine_url = db_url

====
